---------------------------- MODULE Spec2Model ----------------------------
(***************************************************************************)
(* Model of the Dr_One drone (src/src/lib.rs, src/src/utils.rs) and of the *)
(* crash scenario of src/tests/crash.rs.                                   *)
(*                                                                         *)
(* Conventions.                                                            *)
(*  - hop_index is 0-based as in the Rust source; At(s, i) reads s[i].     *)
(*  - A Sender<Packet> is identified with the node whose inbound channel   *)
(*    it feeds, so the Link Table packet_send is the set of its keys.      *)
(*  - Channels are unbounded and their receivers stay alive (as in the     *)
(*    test, which keeps a clone of every receiver), so a send never fails. *)
(*  - pdr (f32) is held in thousandths: 1000 stands for 1.0.               *)
(*  - A Rust panic (slice index out of bounds) ends the drone's thread:    *)
(*    pc = "panicked".                                                     *)
(***************************************************************************)
EXTENDS Integers, Sequences, FiniteSets, TLC

VARIABLES
    drones,          \* ids of the Dr_One instances that were constructed
    packet_send,     \* [drone -> set of neighbour ids]     (Dr_One.packet_send)
    pdr,             \* [drone -> drop rate in thousandths] (Dr_One.pdr)
    seen_flood_ids,  \* [drone -> set of flood ids]         (Dr_One.seen_flood_ids)
    should_exit,     \* [drone -> BOOLEAN]                  (Dr_One.should_exit)
    pc,              \* [drone -> position of its thread], see Run .. CrashExit
    packet_recv,     \* [node -> queue of packets]: every node's inbound packet channel
    sim_contr_recv,  \* [drone -> queue of commands]: the command channels
    last,            \* [drone -> record of the last step it took] (observation)
    hist,            \* observation: snapshots of the past the properties read
    env              \* the environment: what it has sent so far

vars == <<drones, packet_send, pdr, seen_flood_ids, should_exit, pc,
          packet_recv, sim_contr_recv, last, hist, env>>

-----------------------------------------------------------------------------
(* Node ids of the network 1 - 11 - 12 - 21 of tests/crash.rs.             *)
ClientId == 1
Drone11 == 11
Drone12 == 12
ServerId == 21

Nodes == {ClientId, Drone11, Drone12, ServerId}

(* Scale of the pdr encoding and the constants of should_drop_packet.      *)
PdrUnit == 1000
PdrFactor == 100
MaxDraw == 100

(* Bounds of the model.                                                    *)
MaxPackets == 2      \* packets the environment puts on the drone's channel
MaxCommands == 2     \* commands the controller puts on the command channel
MaxInputs == 3       \* packets and commands together
FloodSize == 3       \* drones of the flood network
MaxFloods == 1       \* flood requests the client sends into the flood network
MaxFloodId == 2      \* flood ids are 1..MaxFloodId

-----------------------------------------------------------------------------
(* Sequences, 0-based as Vec.                                              *)
At(s, i) == s[i + 1]

Reverse(s) == [i \in 1..Len(s) |-> s[Len(s) + 1 - i]]

(* hops[..n]: the first n entries.                                         *)
Prefix(s, n) == SubSeq(s, 1, n)

(* f32 -> i32 cast of a quotient: truncation toward zero.                  *)
TruncDiv(a, b) == IF a >= 0 THEN a \div b ELSE -((-a) \div b)

-----------------------------------------------------------------------------
(* Packets (wg_2024::packet).                                              *)
MsgFragment(fi) == [tag |-> "MsgFragment", fragment_index |-> fi]
Ack(fi) == [tag |-> "Ack", fragment_index |-> fi]
Nack(fi, nt) == [tag |-> "Nack", fragment_index |-> fi, nack_type |-> nt]
FloodRequest(fid, pt) == [tag |-> "FloodRequest", flood_id |-> fid, path_trace |-> pt]
FloodResponse(fid, pt) == [tag |-> "FloodResponse", flood_id |-> fid, path_trace |-> pt]

ErrorInRouting(n) == [kind |-> "ErrorInRouting", id |-> n]
DestinationIsDrone == [kind |-> "DestinationIsDrone"]
Dropped == [kind |-> "Dropped"]
UnexpectedRecipient(n) == [kind |-> "UnexpectedRecipient", id |-> n]

SourceRoutingHeader(i, h) == [hop_index |-> i, hops |-> h]

Packet(pt, rh, sid) == [pack_type |-> pt, routing_header |-> rh, session_id |-> sid]

NoPacket == [pack_type |-> [tag |-> "None"]]

(* Commands (wg_2024::controller::DroneCommand).                           *)
AddSender(n) == [tag |-> "AddSender", id |-> n]
RemoveSender(n) == [tag |-> "RemoveSender", id |-> n]
SetPacketDropRate(v) == [tag |-> "SetPacketDropRate", pdr |-> v]
Crash == [tag |-> "Crash"]

NoCommand == [tag |-> "None"]

-----------------------------------------------------------------------------
(* A forward_packet that advances hop_index itself before sending.         *)
forward_packet_advancing(d, p) ==
    LET rh == p.routing_header IN
    IF rh.hop_index >= Len(rh.hops)
    THEN [panic |-> TRUE, sent |-> {}, nochannel |-> FALSE]
    ELSE LET next_hop_id == At(rh.hops, rh.hop_index)
             advanced == [p EXCEPT !.routing_header.hop_index = rh.hop_index + 1]
         IN
         IF next_hop_id \in packet_send[d]
         THEN [panic |-> FALSE, sent |-> {<<next_hop_id, advanced>>}, nochannel |-> FALSE]
         ELSE [panic |-> FALSE, sent |-> {}, nochannel |-> TRUE]

(* utils.rs forward_packet: index the hop list (a panic when hop_index is  *)
(* out of range), then send on the neighbour's channel, or only log when   *)
(* the Link Table has no such neighbour.                                   *)
(* Result: panic, sent (set of <<destination, packet>>), nochannel.        *)
forward_packet(d, p) ==
    LET rh == p.routing_header IN
    IF rh.hop_index >= Len(rh.hops)
    THEN [panic |-> TRUE, sent |-> {}, nochannel |-> FALSE]
    ELSE LET next_hop_id == At(rh.hops, rh.hop_index) IN
         IF next_hop_id \in packet_send[d]
         THEN [panic |-> FALSE, sent |-> {<<next_hop_id, p>>}, nochannel |-> FALSE]
         ELSE [panic |-> FALSE, sent |-> {}, nochannel |-> TRUE]

(* Variant: the traversed prefix is kept in forward order.                 *)
reverse_packet_routing_direction_unreversed(p) ==
    [p EXCEPT !.routing_header =
        SourceRoutingHeader(1, Prefix(p.routing_header.hops,
                                      p.routing_header.hop_index))]

(* lib.rs reverse_packet_routing_direction: hops[..hop_index] reversed,    *)
(* hop_index 1. The callers pass a header with hop_index <= len(hops).     *)
reverse_packet_routing_direction(p) ==
    [p EXCEPT !.routing_header =
        SourceRoutingHeader(1, Reverse(Prefix(p.routing_header.hops,
                                              p.routing_header.hop_index)))]

(* Variant: the fragment index is copied from any payload that has one.    *)
build_nack_copying_index(p, nack_type) ==
    LET fragment_index == IF p.pack_type.tag \in {"MsgFragment", "Ack", "Nack"}
                          THEN p.pack_type.fragment_index
                          ELSE 0
        response == Packet(Nack(fragment_index, nack_type),
                           p.routing_header, p.session_id)
    IN reverse_packet_routing_direction(response)

(* lib.rs build_nack.                                                      *)
build_nack(p, nack_type) ==
    LET fragment_index == IF p.pack_type.tag = "MsgFragment"
                          THEN p.pack_type.fragment_index
                          ELSE 0
        response == Packet(Nack(fragment_index, nack_type),
                           p.routing_header, p.session_id)
    IN reverse_packet_routing_direction(response)

(* utils.rs build_flood_response: the route back is the path trace's ids   *)
(* reversed, hop_index 1; the session id is a fresh random number (sid).   *)
build_flood_response(p, updated_path_trace, sid) ==
    LET ids == [i \in 1..Len(updated_path_trace) |-> updated_path_trace[i][1]]
    IN Packet(FloodResponse(p.pack_type.flood_id, updated_path_trace),
              SourceRoutingHeader(1, Reverse(ids)), sid)

(* lib.rs should_drop_packet: (pdr * 100.0) as i32 against a draw of       *)
(* gen_range(0..=100).                                                     *)
pdr_scaled(d) == TruncDiv(pdr[d] * PdrFactor, PdrUnit)

should_drop_packet(d, draw) == draw < pdr_scaled(d)

(* Variant: the Seen-Flood-Id Set is not consulted.                        *)
should_respond_single_neighbour_only(d, flood_request) ==
    Cardinality(packet_send[d]) = 1

(* Variant: the number of neighbours is not consulted.                     *)
should_respond_seen_only(d, flood_request) ==
    flood_request.flood_id \in seen_flood_ids[d]

(* lib.rs should_respond_to_flood.                                         *)
should_respond_to_flood(d, flood_request) ==
    \/ flood_request.flood_id \in seen_flood_ids[d]
    \/ Cardinality(packet_send[d]) = 1

(* Variant: the copy also goes back to the excluded neighbour.             *)
broadcast_packet_to_all(d, p, exclude_id) ==
    {<<n, p>> : n \in packet_send[d]}

(* lib.rs broadcast_packet: one copy to every neighbour but exclude_id.    *)
broadcast_packet(d, p, exclude_id) ==
    {<<n, p>> : n \in {m \in packet_send[d] : m # exclude_id}}

-----------------------------------------------------------------------------
(* wg_2024 DroneEvent, the messages of the controller event channel.       *)
PacketSent(p) == [tag |-> "PacketSent", packet |-> p]
PacketDropped(p) == [tag |-> "PacketDropped", packet |-> p]
ControllerShortcut(p) == [tag |-> "ControllerShortcut", packet |-> p]

(* lib.rs sim_contr_send: the handlers of lib.rs and utils.rs never send   *)
(* on the controller event channel; the events of one step are none.       *)
NoEvents == {}

(* Outcome of handling one packet: the branch taken, the packet built or   *)
(* forwarded, what was put on which channel, whether the thread panicked,  *)
(* the flood id recorded (0: none), and the events sent to the controller. *)
Outcome(branch, out, fw, recorded) ==
    [branch |-> branch, built |-> out, sent |-> fw.sent, panic |-> fw.panic,
     nochannel |-> fw.nochannel, recorded |-> recorded, events |-> NoEvents]

Panic(branch) ==
    [branch |-> branch, built |-> NoPacket, sent |-> {}, panic |-> TRUE,
     nochannel |-> FALSE, recorded |-> 0, events |-> NoEvents]

(* lib.rs handle_routed_packet / verify_routing: hop_index += 1.           *)
Advance(p) ==
    [p EXCEPT !.routing_header.hop_index = p.routing_header.hop_index + 1]

(* lib.rs handle_message_fragment.                                         *)
handle_message_fragment(d, p, draw) ==
    IF should_drop_packet(d, draw)
    THEN LET nack == build_nack(p, Dropped)
         IN Outcome("Dropped", nack, forward_packet(d, nack), 0)
    ELSE Outcome("Forward", p, forward_packet(d, p), 0)

(* lib.rs verify_routing: is this drone the recipient hops[hop_index]?     *)
(* (its Nack for the other case is sent in handle_routed_packet below).    *)
verify_routing(d, p) ==
    d = At(p.routing_header.hops, p.routing_header.hop_index)

(* Variant: no reachability check before the dispatch.                     *)
handle_routed_packet_unchecked(d, p, draw) ==
    LET index == p.routing_header.hop_index
        packet == Advance(p)
    IN
    IF index >= Len(p.routing_header.hops)
    THEN Panic("IndexOutOfBounds")
    ELSE IF ~verify_routing(d, p)
    THEN LET nack == build_nack(packet, UnexpectedRecipient(d))
         IN Outcome("UnexpectedRecipient", nack, forward_packet(d, nack), 0)
    ELSE IF packet.routing_header.hop_index = Len(packet.routing_header.hops)
    THEN LET nack == build_nack(packet, DestinationIsDrone)
         IN Outcome("DestinationIsDrone", nack, forward_packet(d, nack), 0)
    ELSE IF packet.pack_type.tag = "MsgFragment"
    THEN handle_message_fragment(d, packet, draw)
    ELSE Outcome("Forward", packet, forward_packet(d, packet), 0)

(* Variant: the drop simulator is applied to every payload kind.           *)
handle_routed_packet_dropping_all(d, p, draw) ==
    LET index == p.routing_header.hop_index
        packet == Advance(p)
    IN
    IF index >= Len(p.routing_header.hops)
    THEN Panic("IndexOutOfBounds")
    ELSE IF ~verify_routing(d, p)
    THEN LET nack == build_nack(packet, UnexpectedRecipient(d))
         IN Outcome("UnexpectedRecipient", nack, forward_packet(d, nack), 0)
    ELSE IF packet.routing_header.hop_index = Len(packet.routing_header.hops)
    THEN LET nack == build_nack(packet, DestinationIsDrone)
         IN Outcome("DestinationIsDrone", nack, forward_packet(d, nack), 0)
    ELSE LET next_hop_id == At(packet.routing_header.hops,
                               packet.routing_header.hop_index)
         IN
         IF next_hop_id \notin packet_send[d]
         THEN LET nack == build_nack(packet, ErrorInRouting(next_hop_id))
              IN Outcome("ErrorInRouting", nack, forward_packet(d, nack), 0)
         ELSE handle_message_fragment(d, packet, draw)

(* lib.rs handle_routed_packet; the first branch is the body of            *)
(* verify_routing's failure case. p is the packet as received; packet is   *)
(* p with hop_index + 1. Indexing hops[hop_index] panics out of range.     *)
handle_routed_packet(d, p, draw) ==
    LET index == p.routing_header.hop_index
        packet == Advance(p)
    IN
    IF index >= Len(p.routing_header.hops)
    THEN Panic("IndexOutOfBounds")
    ELSE IF ~verify_routing(d, p)
    THEN LET nack == build_nack(packet, UnexpectedRecipient(d))
         IN Outcome("UnexpectedRecipient", nack, forward_packet(d, nack), 0)
    ELSE IF packet.routing_header.hop_index = Len(packet.routing_header.hops)
    THEN LET nack == build_nack(packet, DestinationIsDrone)
         IN Outcome("DestinationIsDrone", nack, forward_packet(d, nack), 0)
    ELSE LET next_hop_id == At(packet.routing_header.hops,
                               packet.routing_header.hop_index)
         IN
         IF next_hop_id \notin packet_send[d]
         THEN LET nack == build_nack(packet, ErrorInRouting(next_hop_id))
              IN Outcome("ErrorInRouting", nack, forward_packet(d, nack), 0)
         ELSE IF packet.pack_type.tag = "MsgFragment"
         THEN handle_message_fragment(d, packet, draw)
         ELSE Outcome("Forward", packet, forward_packet(d, packet), 0)

(* Variant: the flood id is never recorded.                                *)
handle_flood_request_not_recording(d, p, sid) ==
    LET fr == p.pack_type
        sender_id == IF Len(fr.path_trace) = 0 THEN 0
                     ELSE fr.path_trace[Len(fr.path_trace)][1]
        flood_request == [fr EXCEPT !.path_trace = Append(@, <<d, "Drone">>)]
    IN
    IF should_respond_to_flood(d, flood_request)
    THEN LET response == build_flood_response(p, flood_request.path_trace, sid)
         IN Outcome("FloodRespond", response, forward_packet(d, response), 0)
    ELSE LET updated_packet == Packet(flood_request, p.routing_header, p.session_id)
         IN [branch |-> "FloodBroadcast", built |-> updated_packet,
             sent |-> broadcast_packet(d, updated_packet, sender_id),
             panic |-> FALSE, nochannel |-> FALSE,
             recorded |-> 0, events |-> NoEvents]

(* Variant: the flood id is recorded on arrival, on both branches.         *)
handle_flood_request_recording_on_arrival(d, p, sid) ==
    LET fr == p.pack_type
        sender_id == IF Len(fr.path_trace) = 0 THEN 0
                     ELSE fr.path_trace[Len(fr.path_trace)][1]
        flood_request == [fr EXCEPT !.path_trace = Append(@, <<d, "Drone">>)]
    IN
    IF should_respond_to_flood(d, flood_request)
    THEN LET response == build_flood_response(p, flood_request.path_trace, sid)
         IN Outcome("FloodRespond", response, forward_packet(d, response),
                    flood_request.flood_id)
    ELSE LET updated_packet == Packet(flood_request, p.routing_header, p.session_id)
         IN [branch |-> "FloodBroadcast", built |-> updated_packet,
             sent |-> broadcast_packet(d, updated_packet, sender_id),
             panic |-> FALSE, nochannel |-> FALSE,
             recorded |-> flood_request.flood_id, events |-> NoEvents]

(* lib.rs handle_flood_request.                                            *)
handle_flood_request(d, p, sid) ==
    LET fr == p.pack_type
        sender_id == IF Len(fr.path_trace) = 0 THEN 0
                     ELSE fr.path_trace[Len(fr.path_trace)][1]
        flood_request == [fr EXCEPT !.path_trace = Append(@, <<d, "Drone">>)]
    IN
    IF should_respond_to_flood(d, flood_request)
    THEN LET response == build_flood_response(p, flood_request.path_trace, sid)
         IN Outcome("FloodRespond", response, forward_packet(d, response), 0)
    ELSE LET updated_packet == Packet(flood_request, p.routing_header, p.session_id)
         IN [branch |-> "FloodBroadcast", built |-> updated_packet,
             sent |-> broadcast_packet(d, updated_packet, sender_id),
             panic |-> FALSE, nochannel |-> FALSE,
             recorded |-> flood_request.flood_id, events |-> NoEvents]

(* lib.rs handle_packet.                                                   *)
handle_packet(d, p, draw, sid) ==
    IF p.pack_type.tag = "FloodRequest"
    THEN handle_flood_request(d, p, sid)
    ELSE handle_routed_packet(d, p, draw)

-----------------------------------------------------------------------------
(* lib.rs add_channel, remove_channel, set_pdr: the new field value.       *)
add_channel(d, id) == packet_send[d] \cup {id}

(* Variant: removing an absent neighbour empties the Link Table.           *)
remove_channel_or_clear(d, id) ==
    IF id \in packet_send[d] THEN packet_send[d] \ {id} ELSE {}

remove_channel(d, id) ==
    IF id \notin packet_send[d] THEN packet_send[d] ELSE packet_send[d] \ {id}

set_pdr(d, new_pdr) == new_pdr

-----------------------------------------------------------------------------
(* Channels: put every <<destination, packet>> of sent on its channel. q   *)
(* holds the channels whose receiving end is part of the model; a packet   *)
(* for any other node leaves the model (it stays recorded in last).        *)
Deliver(q, sent) ==
    [n \in DOMAIN q |->
        IF \E s \in sent : s[1] = n
        THEN Append(q[n], (CHOOSE s \in sent : s[1] = n)[2])
        ELSE q[n]]

(* crossbeam select!: a thread that found neither channel ready is parked  *)
(* ("blocked"); the first send on one of its channels selects that         *)
(* channel's arm and wakes it. A send to a thread that is not parked only  *)
(* queues the message.                                                     *)
Wake(pcs, dests, arm) ==
    [d \in DOMAIN pcs |-> IF d \in dests /\ pcs[d] = "blocked" THEN arm ELSE pcs[d]]

Receivers(sent) == {s[1] : s \in sent}

(* The generator is consulted only by handle_message_fragment, i.e. for a  *)
(* fragment that passed the recipient, terminal and reachability checks.   *)
UsesDraw(d, p) ==
    /\ p.pack_type.tag = "MsgFragment"
    /\ handle_routed_packet(d, p, 0).branch \in {"Forward", "Dropped"}

Draws(d, p) == IF UsesDraw(d, p) THEN 0..MaxDraw ELSE {0}

(* build_flood_response draws a random session id.                         *)
RandomSessions(d, p) ==
    IF p.pack_type.tag = "FloodRequest" /\ handle_flood_request(d, p, 0).branch = "FloodRespond"
    THEN {0, 1} ELSE {0}

NoOutcome == [branch |-> "None", built |-> NoPacket, sent |-> {}, panic |-> FALSE,
              nochannel |-> FALSE, recorded |-> 0, events |-> NoEvents]

NoLast == [drone |-> 0, op |-> "none", pkt |-> NoPacket, cmd |-> NoCommand,
           links |-> {}, seen |-> {}, rate |-> 0, cmdPending |-> FALSE,
           pktPending |-> FALSE, via |-> "new", arrivals |-> "none",
           out |-> NoOutcome]

(* What a drone's step leaves in last: the input, the state it was handled *)
(* in, what was pending on the two channels and where the thread stood     *)
(* (via), for a flood request what the earlier arrivals of its flood id    *)
(* were, and the outcome.                                                  *)
Observe(d, op, p, c, o) ==
    [drone |-> d, op |-> op, pkt |-> p, cmd |-> c,
     links |-> packet_send[d], seen |-> seen_flood_ids[d], rate |-> pdr[d],
     cmdPending |-> sim_contr_recv[d] # <<>>,
     pktPending |-> packet_recv[d] # <<>>,
     via |-> pc[d],
     arrivals |-> IF p.pack_type.tag = "FloodRequest"
                  THEN hist.flood[d][p.pack_type.flood_id] ELSE "none",
     out |-> o]

(* hist: crashTaken[d], whether d took a Crash command; atCrash[d] and     *)
(* cmdsAtCrash[d], what its packet and command channels held at that       *)
(* moment; drained[d], the packets crash() dispatched; flood[d][f], the    *)
(* arrivals of flood id f at d; broadcasts[d][f], how many times d         *)
(* broadcast a request with flood id f.                                    *)
(* The flood history of drone d after a flood request with id f arrived:   *)
(* "ok" while every arrival of f found at least two neighbours.            *)
FloodSeen(d, p) ==
    IF p.pack_type.tag # "FloodRequest" THEN hist.flood
    ELSE [hist.flood EXCEPT ![d][p.pack_type.flood_id] =
            IF Cardinality(packet_send[d]) >= 2 /\ @ # "bad" THEN "ok" ELSE "bad"]

(* How many times drone d took the broadcast branch for each flood id.     *)
BroadcastsSeen(d, p, o) ==
    IF o.branch = "FloodBroadcast"
    THEN [hist.broadcasts EXCEPT ![d][p.pack_type.flood_id] = @ + 1]
    ELSE hist.broadcasts

(* Variant: a neighbour is forgotten once a packet was sent to it.         *)
Dispatch_forgetting_receivers(d, op, o) ==
    LET p == Head(packet_recv[d]) IN
    /\ packet_recv' = Deliver([packet_recv EXCEPT ![d] = Tail(@)], o.sent)
    /\ seen_flood_ids' = IF o.recorded # 0
                          THEN [seen_flood_ids EXCEPT ![d] = @ \cup {o.recorded}]
                          ELSE seen_flood_ids
    /\ pc' = Wake([pc EXCEPT ![d] = IF o.panic THEN "panicked"
                                   ELSE IF op = "select-packet" THEN "select"
                                   ELSE @],
                  Receivers(o.sent), "woken-packet")
    /\ last' = [last EXCEPT ![d] = Observe(d, op, p, NoCommand, o)]
    /\ hist' = [hist EXCEPT !.flood = FloodSeen(d, p),
                            !.broadcasts = BroadcastsSeen(d, p, o),
                            !.drained[d] = IF op = "drain-packet"
                                           THEN Append(@, p) ELSE @]
    /\ packet_send' = [packet_send EXCEPT ![d] = @ \ Receivers(o.sent)]
    /\ UNCHANGED <<drones, pdr, should_exit, sim_contr_recv, env>>

(* The effect of handling packet p, the head of d's packet channel.        *)
Dispatch(d, op, o) ==
    LET p == Head(packet_recv[d]) IN
    /\ packet_recv' = Deliver([packet_recv EXCEPT ![d] = Tail(@)], o.sent)
    /\ seen_flood_ids' = IF o.recorded # 0
                          THEN [seen_flood_ids EXCEPT ![d] = @ \cup {o.recorded}]
                          ELSE seen_flood_ids
    /\ pc' = Wake([pc EXCEPT ![d] = IF o.panic THEN "panicked"
                                   ELSE IF op = "select-packet" THEN "select"
                                   ELSE @],
                  Receivers(o.sent), "woken-packet")
    /\ last' = [last EXCEPT ![d] = Observe(d, op, p, NoCommand, o)]
    /\ hist' = [hist EXCEPT !.flood = FloodSeen(d, p),
                            !.broadcasts = BroadcastsSeen(d, p, o),
                            !.drained[d] = IF op = "drain-packet"
                                           THEN Append(@, p) ELSE @]
    /\ UNCHANGED <<drones, packet_send, pdr, should_exit, sim_contr_recv, env>>

(* The drone's thread calls run and reaches select! (should_exit is false  *)
(* after construction).                                                    *)
Run(d) ==
    /\ pc[d] = "new"
    /\ pc' = [pc EXCEPT ![d] = IF should_exit[d] THEN "returned" ELSE "select"]
    /\ UNCHANGED <<drones, packet_send, pdr, seen_flood_ids, should_exit,
                   packet_recv, sim_contr_recv, last, hist, env>>

(* run: select! finds neither channel ready and parks the thread.          *)
Block(d) ==
    /\ pc[d] = "select"
    /\ packet_recv[d] = <<>>
    /\ sim_contr_recv[d] = <<>>
    /\ pc' = [pc EXCEPT ![d] = "blocked"]
    /\ UNCHANGED <<drones, packet_send, pdr, seen_flood_ids, should_exit,
                   packet_recv, sim_contr_recv, last, hist, env>>

(* run: the packet arm of select!: chosen among the ready arms (at random  *)
(* when both are ready), or by the send that woke the thread.              *)
RecvPacket(d) ==
    /\ \/ pc[d] = "select" /\ packet_recv[d] # <<>>
       \/ pc[d] = "woken-packet"
    /\ \E draw \in Draws(d, Head(packet_recv[d])) :
       \E sid \in RandomSessions(d, Head(packet_recv[d])) :
          Dispatch(d, "select-packet", handle_packet(d, Head(packet_recv[d]), draw, sid))

(* run: the command arm of select!, and handle_command. Crash enters the   *)
(* drain loop of crash().                                                  *)
RecvCommand(d) ==
    /\ \/ pc[d] = "select" /\ sim_contr_recv[d] # <<>>
       \/ pc[d] = "woken-command"
    /\ LET c == Head(sim_contr_recv[d]) IN
       /\ sim_contr_recv' = [sim_contr_recv EXCEPT ![d] = Tail(@)]
       /\ packet_send' = [packet_send EXCEPT ![d] =
             CASE c.tag = "AddSender" -> add_channel(d, c.id)
               [] c.tag = "RemoveSender" -> remove_channel(d, c.id)
               [] OTHER -> @]
       /\ pdr' = [pdr EXCEPT ![d] =
             IF c.tag = "SetPacketDropRate" THEN set_pdr(d, c.pdr) ELSE @]
       /\ pc' = [pc EXCEPT ![d] = IF c.tag = "Crash" THEN "drain" ELSE "select"]
       /\ last' = [last EXCEPT ![d] = Observe(d, "select-command", NoPacket, c, NoOutcome)]
       /\ hist' = IF c.tag = "Crash"
                  THEN [hist EXCEPT !.crashTaken[d] = TRUE,
                                    !.atCrash[d] = packet_recv[d],
                                    !.cmdsAtCrash[d] = Tail(sim_contr_recv[d])]
                  ELSE hist
    /\ UNCHANGED <<drones, seen_flood_ids, should_exit, packet_recv, env>>

(* crash: one turn of "while let Ok(packet) = try_recv()".                 *)
CrashDrain(d) ==
    /\ pc[d] = "drain"
    /\ packet_recv[d] # <<>>
    /\ \E draw \in Draws(d, Head(packet_recv[d])) :
       \E sid \in RandomSessions(d, Head(packet_recv[d])) :
          Dispatch(d, "drain-packet", handle_packet(d, Head(packet_recv[d]), draw, sid))

(* crash: try_recv finds the channel empty, should_exit is set and run's   *)
(* loop ends.                                                              *)
CrashExit(d) ==
    /\ pc[d] = "drain"
    /\ packet_recv[d] = <<>>
    /\ should_exit' = [should_exit EXCEPT ![d] = TRUE]
    /\ pc' = [pc EXCEPT ![d] = "returned"]
    /\ last' = [last EXCEPT ![d] = Observe(d, "drain-exit", NoPacket, NoCommand, NoOutcome)]
    /\ UNCHANGED <<drones, packet_send, pdr, seen_flood_ids, packet_recv,
                   sim_contr_recv, hist, env>>


-----------------------------------------------------------------------------
(* Construction (Drone::new, as tests/crash.rs calls it): no flood id      *)
(* seen, should_exit false, empty channels.                                *)
InitDrones(ids, neighbours, rate, channels) ==
    /\ drones = ids
    /\ packet_send = neighbours
    /\ pdr = [d \in ids |-> rate]
    /\ seen_flood_ids = [d \in ids |-> {}]
    /\ should_exit = [d \in ids |-> FALSE]
    /\ pc = [d \in ids |-> "new"]
    /\ packet_recv = [n \in channels |-> <<>>]
    /\ sim_contr_recv = [d \in ids |-> <<>>]
    /\ last = [d \in ids |-> NoLast]
    /\ hist = [crashTaken |-> [d \in ids |-> FALSE],
               atCrash |-> [d \in ids |-> <<>>],
               cmdsAtCrash |-> [d \in ids |-> <<>>],
               drained |-> [d \in ids |-> <<>>],
               flood |-> [d \in ids |-> [f \in 1..MaxFloodId |-> "none"]],
               broadcasts |-> [d \in ids |-> [f \in 1..MaxFloodId |-> 0]]]
    /\ env = [packets |-> 0, commands |-> 0, script |-> 0, msg |-> NoPacket,
              received |-> NoPacket]

neighbours11 == {Drone12, ClientId}
neighbours12 == {Drone11, ServerId}

-----------------------------------------------------------------------------
(* Specification Spec: drone 11 of the test, alone, with an environment    *)
(* that puts any of Packets on its packet channel and any of Commands on   *)
(* its command channel.                                                    *)

(* Routed inputs: <<hops, hop_index, session_id>> as seen by drone 11.     *)
Routes ==
    { <<<<ClientId, Drone11, Drone12, ServerId>>, 1, 1>>,  \* next hop 12
      <<<<ClientId, Drone11>>, 1, 1>>,                     \* the drone is last
      <<<<ClientId, Drone11, ServerId>>, 1, 1>>,           \* next hop 21, no neighbour
      <<<<ClientId, Drone12, ServerId>>, 1, 1>>,           \* addressed to 12
      <<<<Drone11, Drone12>>, 0, 1>>,                      \* the drone is first
      <<<<Drone11>>, 0, 1>>,                               \* first and last
      <<<<Drone12, Drone11, ClientId>>, 0, 1>>,            \* addressed to 12, first
      <<<<ServerId, Drone11>>, 1, 2>> }                    \* last; came from 21, no neighbour

Payloads ==
    { MsgFragment(1), Ack(1), Nack(1, Dropped),
      FloodResponse(1, <<<<ClientId, "Client">>, <<Drone11, "Drone">>>>) }

RoutedPackets ==
    { Packet(pt, SourceRoutingHeader(r[2], r[1]), r[3]) : pt \in Payloads, r \in Routes }

Traces ==
    { <<>>, <<<<ClientId, "Client">>>>,
      <<<<ClientId, "Client">>, <<Drone12, "Drone">>>> }

FloodRequests ==
    { Packet(FloodRequest(f, t), SourceRoutingHeader(0, <<>>), 1) :
        f \in 1..MaxFloodId, t \in Traces }

Packets == RoutedPackets \cup FloodRequests

(* Drop rates in thousandths: -0.5, 0.5, 1.0, 1.5.                         *)
Rates == {-(PdrUnit \div 2), PdrUnit \div 2, PdrUnit, PdrUnit + PdrUnit \div 2}

Commands ==
    {AddSender(ServerId), RemoveSender(Drone12), RemoveSender(ServerId), Crash}
    \cup {SetPacketDropRate(v) : v \in Rates}

Init == InitDrones({Drone11}, [d \in {Drone11} |-> neighbours11], 0, {Drone11})

EnvSendPacket ==
    /\ env.packets < MaxPackets
    /\ env.packets + env.commands < MaxInputs
    /\ \E p \in Packets :
          packet_recv' = [packet_recv EXCEPT ![Drone11] = Append(@, p)]
    /\ env' = [env EXCEPT !.packets = @ + 1]
    /\ pc' = Wake(pc, {Drone11}, "woken-packet")
    /\ UNCHANGED <<drones, packet_send, pdr, seen_flood_ids, should_exit,
                   sim_contr_recv, last, hist>>

EnvSendCommand ==
    /\ env.commands < MaxCommands
    /\ env.packets + env.commands < MaxInputs
    /\ \E c \in Commands :
          sim_contr_recv' = [sim_contr_recv EXCEPT ![Drone11] = Append(@, c)]
    /\ env' = [env EXCEPT !.commands = @ + 1]
    /\ pc' = Wake(pc, {Drone11}, "woken-command")
    /\ UNCHANGED <<drones, packet_send, pdr, seen_flood_ids, should_exit,
                   packet_recv, last, hist>>

Next ==
    \/ EnvSendPacket
    \/ EnvSendCommand
    \/ Run(Drone11)
    \/ Block(Drone11)
    \/ RecvPacket(Drone11)
    \/ RecvCommand(Drone11)
    \/ CrashDrain(Drone11)
    \/ CrashExit(Drone11)

Spec == Init /\ [][Next]_vars

-----------------------------------------------------------------------------
(* Specification NetSpec: tests/crash.rs generic_drone_crash. Drones 11    *)
(* and 12 run in their own threads; the test thread sends RemoveSender(12) *)
(* to 11, Crash to 12, a packet msg to 11, then waits on node 1's channel. *)
(* env.script is the test thread's position, env.msg the packet it sent:   *)
(* the test's sample fragment, or another packet a client sends on the     *)
(* same route (an Ack, a flood request).                                   *)
create_sample_packet ==
    Packet(MsgFragment(1),
           SourceRoutingHeader(1, <<ClientId, Drone11, Drone12, ServerId>>), 1)

NetPackets ==
    { create_sample_packet,
      [create_sample_packet EXCEPT !.pack_type = Ack(1)],
      Packet(FloodRequest(1, <<<<ClientId, "Client">>>>), SourceRoutingHeader(0, <<>>), 1) }

NetInit ==
    InitDrones({Drone11, Drone12},
               [d \in {Drone11, Drone12} |->
                   IF d = Drone11 THEN neighbours11 ELSE neighbours12],
               0, Nodes)

TestFrame == <<drones, packet_send, pdr, seen_flood_ids, should_exit, last, hist>>

TestRemoveSender ==
    /\ env.script = 0
    /\ sim_contr_recv' = [sim_contr_recv EXCEPT ![Drone11] = Append(@, RemoveSender(Drone12))]
    /\ env' = [env EXCEPT !.script = 1, !.commands = @ + 1]
    /\ pc' = Wake(pc, {Drone11}, "woken-command")
    /\ UNCHANGED <<TestFrame, packet_recv>>

TestCrash ==
    /\ env.script = 1
    /\ sim_contr_recv' = [sim_contr_recv EXCEPT ![Drone12] = Append(@, Crash)]
    /\ env' = [env EXCEPT !.script = 2, !.commands = @ + 1]
    /\ pc' = Wake(pc, {Drone12}, "woken-command")
    /\ UNCHANGED <<TestFrame, packet_recv>>

TestSendPacket ==
    /\ env.script = 2
    /\ \E msg \in NetPackets :
          /\ packet_recv' = [packet_recv EXCEPT ![Drone11] = Append(@, msg)]
          /\ env' = [env EXCEPT !.script = 3, !.packets = @ + 1, !.msg = msg]
    /\ pc' = Wake(pc, {Drone11}, "woken-packet")
    /\ UNCHANGED <<TestFrame, sim_contr_recv>>

(* c_recv.recv(): blocks until node 1's channel holds a packet.            *)
TestRecv ==
    /\ env.script = 3
    /\ packet_recv[ClientId] # <<>>
    /\ packet_recv' = [packet_recv EXCEPT ![ClientId] = Tail(@)]
    /\ env' = [env EXCEPT !.script = 4, !.received = Head(packet_recv[ClientId])]
    /\ UNCHANGED <<TestFrame, pc, sim_contr_recv>>

NetNext ==
    \/ TestRemoveSender
    \/ TestCrash
    \/ TestSendPacket
    \/ TestRecv
    \/ \E d \in drones : Run(d)
    \/ \E d \in drones : Block(d)
    \/ \E d \in drones : RecvPacket(d)
    \/ \E d \in drones : RecvCommand(d)
    \/ \E d \in drones : CrashDrain(d)
    \/ \E d \in drones : CrashExit(d)

NetSpec == NetInit /\ [][NetNext]_vars

-----------------------------------------------------------------------------
(* Specification FloodSpec: a network of FloodSize drones, each linked to  *)
(* every other one (so the drone graph has cycles), and the client linked  *)
(* to drone 11. The topology is fixed: no command is ever sent. The client *)
(* starts floods by sending flood requests to drone 11, its one            *)
(* neighbour; what is sent to the client leaves the model. Every drone     *)
(* runs in a thread of its own, which is scheduled again and again.        *)

FloodDrones == Drone11 .. (Drone11 + FloodSize - 1)

FloodNeighbours(d) ==
    (FloodDrones \ {d}) \cup (IF d = Drone11 THEN {ClientId} ELSE {})

FloodInit ==
    InitDrones(FloodDrones, [d \in FloodDrones |-> FloodNeighbours(d)], 0, FloodDrones)

ClientFlood ==
    /\ env.packets < MaxFloods
    /\ \E f \in 1..MaxFloodId :
          packet_recv' = [packet_recv EXCEPT ![Drone11] =
              Append(@, Packet(FloodRequest(f, <<<<ClientId, "Client">>>>),
                               SourceRoutingHeader(0, <<>>), 1))]
    /\ env' = [env EXCEPT !.packets = @ + 1]
    /\ pc' = Wake(pc, {Drone11}, "woken-packet")
    /\ UNCHANGED <<drones, packet_send, pdr, seen_flood_ids, should_exit,
                   sim_contr_recv, last, hist>>

(* A step of drone d's thread (its command channel stays empty).           *)
DroneThread(d) == Run(d) \/ Block(d) \/ RecvPacket(d)

FloodNext ==
    \/ ClientFlood
    \/ \E d \in drones : Run(d)
    \/ \E d \in drones : Block(d)
    \/ \E d \in drones : RecvPacket(d)

FloodSpec ==
    /\ FloodInit
    /\ [][FloodNext]_vars
    /\ \A d \in FloodDrones : WF_vars(DroneThread(d))

-----------------------------------------------------------------------------
(* Properties.                                                             *)

PacketOps == {"select-packet", "drain-packet"}

(* C1 (NetSpec). In the crash test with the sample fragment, once no       *)
(* thread can take a step any more, the test thread has received from node *)
(* 1's channel the Nack ErrorInRouting(12), fragment_index 1, routing      *)
(* header {hop_index 1, hops [11, 1]}, session 1 ("eventually receives",   *)
(* stated on the final states of the run).                                 *)
ExpectedNack ==
    Packet(Nack(1, ErrorInRouting(Drone12)),
           SourceRoutingHeader(1, <<Drone11, ClientId>>), 1)

NetDone ==
    /\ env.script >= 3
    /\ env.script = 3 => packet_recv[ClientId] = <<>>
    /\ \A d \in drones :
          pc[d] \in {"blocked", "returned", "panicked"}

C1_ClientReceivesErrorInRouting ==
    (env.msg = create_sample_packet /\ NetDone) => env.received = ExpectedNack

(* C2 (Spec). When select! finds a packet ready (the thread was not parked) *)
(* and takes it, no command is waiting on the command channel: with both   *)
(* available the command is serviced first.                                *)
C2_CommandServicedFirst ==
    \A d \in drones :
        (last[d].op = "select-packet" /\ last[d].via = "select") => ~last[d].cmdPending

IsPrefix(s, t) == Len(s) <= Len(t) /\ SubSeq(t, 1, Len(s)) = s

Ended(d) == pc[d] \in {"returned", "panicked"}

(* C3 (Spec). Crash drain completeness: when the drone's thread has ended  *)
(* after taking Crash, every packet that was on its packet channel when    *)
(* Crash was taken has been dispatched by crash(), in channel order.       *)
C3_CrashDrainComplete ==
    \A d \in drones :
        (hist.crashTaken[d] /\ Ended(d)) => IsPrefix(hist.atCrash[d], hist.drained[d])

(* C4 (Spec). Once the drone has taken Crash it takes no further command   *)
(* (what was behind Crash on the command channel stays there), it is       *)
(* draining or has returned from run (it ends no other way and never       *)
(* selects again); run returns only after Crash, with should_exit set and  *)
(* the packet channel found empty; and the drone's last step is then that  *)
(* return for ever: it handles and emits nothing afterwards.               *)
C4_CrashStopsTheDrone ==
    \A d \in drones :
        /\ hist.crashTaken[d] =>
              /\ pc[d] \in {"drain", "returned"}
              /\ IsPrefix(hist.cmdsAtCrash[d], sim_contr_recv[d])
        /\ pc[d] = "returned" =>
              /\ hist.crashTaken[d] /\ should_exit[d]
              /\ last[d].op = "drain-exit" /\ ~last[d].pktPending
        /\ should_exit[d] => pc[d] = "returned"

(* A routed packet was handled and went onward (not answered by a Nack).   *)
Forwarded(l) ==
    /\ l.op \in PacketOps
    /\ l.pkt.pack_type.tag # "FloodRequest"
    /\ l.out.branch = "Forward"
    /\ l.out.sent # {}

(* C5 (Spec). Hop monotonicity: a packet the drone forwards leaves with    *)
(* hop_index one greater than it arrived with, the same hops, payload and  *)
(* session id, on the channel of hops[incoming hop_index + 1], and nothing *)
(* else is sent.                                                           *)
C5_HopMonotonicity ==
    \A d \in drones :
        LET l == last[d]
            k == l.pkt.routing_header.hop_index
            h == l.pkt.routing_header.hops
        IN Forwarded(l) =>
             l.out.sent = {<<h[k + 2],
                            [pack_type |-> l.pkt.pack_type,
                             routing_header |-> [hop_index |-> k + 1, hops |-> h],
                             session_id |-> l.pkt.session_id]>>}

C5_Witness ==
    /\ Forwarded(last[Drone11])
    /\ last[Drone11].pkt.pack_type.tag = "MsgFragment"
    /\ last[Drone11].pkt.routing_header.hop_index = 1
    /\ \E s \in last[Drone11].out.sent : s[1] = Drone12

NackKinds == {"UnexpectedRecipient", "DestinationIsDrone", "ErrorInRouting", "Dropped"}

(* The drone built a Nack from the routed packet it handled.               *)
BuiltNack(l) ==
    /\ l.op \in PacketOps
    /\ l.pkt.pack_type.tag # "FloodRequest"
    /\ l.out.branch \in NackKinds

(* C6 (Spec). Reverse-path correctness: a Nack built from a packet that    *)
(* arrived with hop list hops and hop index k is of the kind of the check  *)
(* that failed, has hop_index 1 and the hop list [hops[k], ..., hops[0]].  *)
C6_ReversePath ==
    \A d \in drones :
        LET l == last[d]
            k == l.pkt.routing_header.hop_index
            h == l.pkt.routing_header.hops
            b == l.out.built
        IN BuiltNack(l) =>
             /\ b.pack_type.tag = "Nack"
             /\ b.pack_type.nack_type.kind = l.out.branch
             /\ b.routing_header.hop_index = 1
             /\ Len(b.routing_header.hops) = k + 1
             /\ \A i \in 1..(k + 1) : b.routing_header.hops[i] = h[k + 2 - i]

C6_Witness ==
    /\ BuiltNack(last[Drone11])
    /\ last[Drone11].out.branch = "Dropped"
    /\ last[Drone11].pkt.routing_header.hop_index = 1
    /\ last[Drone11].out.built.routing_header.hops = <<Drone11, ClientId>>

(* The drone handled a flood request.                                      *)
HandledFlood(l) == l.op \in PacketOps /\ l.pkt.pack_type.tag = "FloodRequest"

Broadcast(l) ==
    /\ l.out.built.pack_type.tag = "FloodRequest"
    /\ \A s \in l.out.sent : s[2].pack_type.tag = "FloodRequest"

Responded(l) ==
    /\ l.out.built.pack_type.tag = "FloodResponse"
    /\ \A s \in l.out.sent : s[2].pack_type.tag = "FloodResponse"

(* C7 (Spec). Flood idempotence: at a drone that had at least two          *)
(* neighbours at every arrival of a flood id, the first request with that  *)
(* id is broadcast and no response is built, and every later one is turned *)
(* into a flood response and no FloodRequest copy is sent.                 *)
C7_FloodIdempotence ==
    \A d \in drones :
        LET l == last[d] IN
        (HandledFlood(l) /\ Cardinality(l.links) >= 2 /\ l.arrivals # "bad") =>
            /\ l.arrivals = "none" => Broadcast(l)
            /\ l.arrivals = "ok" => Responded(l)

C7_Witness ==
    /\ HandledFlood(last[Drone11])
    /\ Cardinality(last[Drone11].links) >= 2
    /\ last[Drone11].arrivals = "ok"
    /\ Responded(last[Drone11])
    /\ last[Drone11].out.sent # {}

(* C8 (Spec). Single-neighbour flood termination: with exactly one         *)
(* neighbour in the Link Table every flood request is turned into a flood  *)
(* response and no FloodRequest copy is sent, seen flood id or not.        *)
C8_SingleNeighbourResponds ==
    \A d \in drones :
        LET l == last[d] IN
        (HandledFlood(l) /\ Cardinality(l.links) = 1) => Responded(l)

C8_Witness ==
    /\ HandledFlood(last[Drone11])
    /\ Cardinality(last[Drone11].links) = 1
    /\ last[Drone11].pkt.pack_type.flood_id \notin last[Drone11].seen
    /\ Responded(last[Drone11])
    /\ last[Drone11].out.sent # {}

(* A fragment addressed to the drone, not ending at it, whose next hop is  *)
(* a neighbour: the fragments the drop simulator decides on.               *)
ReachableFragment(d, l) ==
    LET k == l.pkt.routing_header.hop_index
        h == l.pkt.routing_header.hops
    IN /\ l.op \in PacketOps
       /\ l.pkt.pack_type.tag = "MsgFragment"
       /\ k + 1 < Len(h)
       /\ h[k + 1] = d
       /\ h[k + 2] \in l.links

(* C9 (Spec). Drop-rate boundary: with drop rate 0.0 such a fragment is    *)
(* never dropped and with drop rate 1.0 it is always answered by a Nack    *)
(* Dropped and never forwarded, whatever the draw.                         *)
C9_DropRateBoundary ==
    \A d \in drones :
        LET l == last[d] IN
        ReachableFragment(d, l) =>
            /\ l.rate = 0 => l.out.branch = "Forward"
            /\ l.rate = PdrUnit =>
                  /\ l.out.branch = "Dropped"
                  /\ l.out.built.pack_type.tag = "Nack"
                  /\ l.out.built.pack_type.nack_type = Dropped

(* C10 (Spec). The drop rate is within [0.0, 1.0] in every state, and a    *)
(* SetPacketDropRate(v) with v outside that range leaves it as it was.     *)
InRange(v) == 0 <= v /\ v <= PdrUnit

C10_DropRateInRange ==
    \A d \in drones :
        /\ InRange(pdr[d])
        /\ (last[d].op = "select-command" /\ last[d].cmd.tag = "SetPacketDropRate") =>
              pdr[d] = IF InRange(last[d].cmd.pdr) THEN last[d].cmd.pdr ELSE last[d].rate


-----------------------------------------------------------------------------
(* Routing engine checks. h, k: the hop list and hop index of the packet   *)
(* as it arrived (hops[i] of the code is h[i + 1]).                        *)

(* The drone handled a routed packet whose hop index is within its hops.   *)
Routed(l) ==
    /\ l.op \in PacketOps
    /\ l.pkt.pack_type.tag # "FloodRequest"
    /\ l.pkt.routing_header.hop_index < Len(l.pkt.routing_header.hops)

AddressedTo(d, l) ==
    Routed(l) /\ At(l.pkt.routing_header.hops, l.pkt.routing_header.hop_index) = d

IsFragment(l) == l.pkt.pack_type.tag = "MsgFragment"

(* The drone is the last entry of the hop list.                            *)
Terminal(l) ==
    l.pkt.routing_header.hop_index + 1 = Len(l.pkt.routing_header.hops)

NextHop(l) == At(l.pkt.routing_header.hops, l.pkt.routing_header.hop_index + 1)

(* The packet with only its hop index advanced by one.                     *)
Advanced(l) ==
    Packet(l.pkt.pack_type,
           SourceRoutingHeader(l.pkt.routing_header.hop_index + 1,
                               l.pkt.routing_header.hops),
           l.pkt.session_id)

(* The Nack of the given kind for the handled packet, routed back: hops    *)
(* [h[k], ..., h[0]], hop index 1, the fragment's index (0 for another     *)
(* payload), the packet's session id.                                      *)
NackFor(l, nack_type) ==
    Packet(Nack(IF IsFragment(l) THEN l.pkt.pack_type.fragment_index ELSE 0,
                nack_type),
           SourceRoutingHeader(1,
               Reverse(Prefix(l.pkt.routing_header.hops,
                              l.pkt.routing_header.hop_index + 1))),
           l.pkt.session_id)

(* The drone answered with that Nack and nothing else: handling did not    *)
(* fail and the only packet emitted is the Nack, on the channel of the     *)
(* previous hop h[k - 1].                                                  *)
AnsweredWithNack(l, nack_type) ==
    /\ ~l.out.panic
    /\ l.pkt.routing_header.hop_index >= 1
    /\ l.out.sent = {<<At(l.pkt.routing_header.hops,
                          l.pkt.routing_header.hop_index - 1),
                       NackFor(l, nack_type)>>}

(* C11 (Spec). Recipient check: a routed packet whose hops[hop_index] is   *)
(* not the drone is answered with a Nack UnexpectedRecipient(own id) sent  *)
(* along the reverse path and with nothing else (it is not forwarded), and *)
(* no other check decides: this is so whatever the rest of the hop list    *)
(* and the Link Table are.                                                 *)
C11_RecipientCheck ==
    \A d \in drones :
        LET l == last[d] IN
        (Routed(l) /\ ~AddressedTo(d, l)) =>
            /\ l.out.branch = "UnexpectedRecipient"
            /\ AnsweredWithNack(l, UnexpectedRecipient(d))


(* C12 (Spec). Terminal check for fragments: a fragment addressed to the   *)
(* drone whose hop list ends at the drone is answered with a Nack          *)
(* DestinationIsDrone sent along the reverse path, and is not forwarded.   *)
C12_FragmentAtLastHop ==
    \A d \in drones :
        LET l == last[d] IN
        (AddressedTo(d, l) /\ IsFragment(l) /\ Terminal(l)) =>
            /\ l.out.branch = "DestinationIsDrone"
            /\ AnsweredWithNack(l, DestinationIsDrone)

(* C13 (Spec). Terminal check for the other payloads: an Ack, Nack or      *)
(* FloodResponse addressed to the drone whose hop list ends at the drone   *)
(* produces a ControllerShortcut event carrying the packet, and no Nack    *)
(* DestinationIsDrone is built or sent for it.                             *)
C13_NonFragmentAtLastHop ==
    \A d \in drones :
        LET l == last[d] IN
        (AddressedTo(d, l) /\ ~IsFragment(l) /\ Terminal(l)) =>
            /\ \E e \in l.out.events :
                  e.tag = "ControllerShortcut" /\ e.packet.pack_type = l.pkt.pack_type
            /\ l.out.branch # "DestinationIsDrone"
            /\ \A s \in l.out.sent : s[2] # NackFor(l, DestinationIsDrone)

(* C14 (Spec). Next-hop reachability for fragments: a fragment addressed   *)
(* to the drone whose next hop is not in the Link Table is answered with a *)
(* Nack ErrorInRouting(next hop) whose hop list is the reversed prefix up  *)
(* to the drone's own position, and is not forwarded.                      *)
C14_FragmentNextHopMissing ==
    \A d \in drones :
        LET l == last[d] IN
        (AddressedTo(d, l) /\ IsFragment(l) /\ ~Terminal(l)
                           /\ NextHop(l) \notin l.links) =>
            /\ l.out.branch = "ErrorInRouting"
            /\ AnsweredWithNack(l, ErrorInRouting(NextHop(l)))

(* C15 (Spec). Next-hop reachability for the other payloads: an Ack, Nack  *)
(* or FloodResponse addressed to the drone whose next hop is not in the    *)
(* Link Table is dropped silently: nothing is put on any channel.          *)
C15_NonFragmentNextHopMissing ==
    \A d \in drones :
        LET l == last[d] IN
        (AddressedTo(d, l) /\ ~IsFragment(l) /\ ~Terminal(l)
                           /\ NextHop(l) \notin l.links) =>
            l.out.sent = {}

(* C16 (Spec). Fragment dispatch: a fragment addressed to the drone whose  *)
(* next hop is in the Link Table has exactly one packet emitted for it:    *)
(* when the drop simulator decides to drop, the Nack Dropped along the     *)
(* reverse path; otherwise the fragment with its hop index advanced, on    *)
(* the next hop's channel.                                                 *)
C16_FragmentDispatch ==
    \A d \in drones :
        LET l == last[d] IN
        ReachableFragment(d, l) =>
            /\ l.out.branch \in {"Dropped", "Forward"}
            /\ l.out.branch = "Dropped" => AnsweredWithNack(l, Dropped)
            /\ l.out.branch = "Forward" =>
                  l.out.sent = {<<NextHop(l), Advanced(l)>>}

(* C17 (Spec). Supervisory events: a fragment the drone drops produces one *)
(* PacketDropped event and a fragment it forwards one PacketSent event.    *)
C17_FragmentEvents ==
    \A d \in drones :
        LET l == last[d] IN
        ReachableFragment(d, l) =>
            /\ l.out.branch = "Dropped" =>
                  /\ Cardinality(l.out.events) = 1
                  /\ \A e \in l.out.events : e.tag = "PacketDropped"
            /\ l.out.branch = "Forward" =>
                  /\ Cardinality(l.out.events) = 1
                  /\ \A e \in l.out.events : e.tag = "PacketSent"

(* An Ack, Nack or FloodResponse addressed to the drone, not ending at it, *)
(* whose next hop is a neighbour.                                          *)
ReachableNonFragment(d, l) ==
    /\ AddressedTo(d, l)
    /\ ~IsFragment(l)
    /\ ~Terminal(l)
    /\ NextHop(l) \in l.links

(* C18 (Spec). An Ack, Nack or FloodResponse addressed to the drone whose  *)
(* next hop is in the Link Table is forwarded to that next hop with only   *)
(* its hop index advanced, and nothing else is emitted, whatever the drop  *)
(* rate and the generator's state.                                         *)
C18_NonFragmentsAlwaysForwarded ==
    \A d \in drones :
        LET l == last[d] IN
        ReachableNonFragment(d, l) =>
            /\ l.out.branch = "Forward"
            /\ ~l.out.panic
            /\ l.out.sent = {<<NextHop(l), Advanced(l)>>}

C18_Witness ==
    /\ ReachableNonFragment(Drone11, last[Drone11])
    /\ last[Drone11].pkt.pack_type.tag = "Nack"
    /\ last[Drone11].rate = PdrUnit
    /\ \E s \in last[Drone11].out.sent : s[1] = Drone12

(* C19 (Spec). Crashing mode: a fragment the drone handles after it took   *)
(* Crash, addressed to it and with its next hop in the Link Table, is      *)
(* answered with a Nack ErrorInRouting(own id) and is not forwarded.       *)
C19_CrashingRejectsFragments ==
    \A d \in drones :
        LET l == last[d] IN
        (l.op = "drain-packet" /\ ReachableFragment(d, l)) =>
            /\ l.out.built = NackFor(l, ErrorInRouting(d))
            /\ \A s \in l.out.sent : s[2] = NackFor(l, ErrorInRouting(d))

(* The drone took the broadcast branch for a flood request.                *)
TookBroadcast(l) == HandledFlood(l) /\ l.out.branch = "FloodBroadcast"

(* The neighbour a flood request arrived from: the last node of its path   *)
(* trace as it arrived (none, 0, when the trace is empty).                 *)
ArrivedFrom(l) ==
    IF l.pkt.pack_type.path_trace = <<>> THEN 0
    ELSE l.pkt.pack_type.path_trace[Len(l.pkt.pack_type.path_trace)][1]

-----------------------------------------------------------------------------
(* The drone took the respond branch for a flood request.                  *)
TookRespond(l) == HandledFlood(l) /\ l.out.branch = "FloodRespond"

(* The path trace of the handled flood request extended by (d, Drone).     *)
UpdatedTrace(d, l) == Append(l.pkt.pack_type.path_trace, <<d, "Drone">>)

(* The node ids of a path trace, in reverse order.                         *)
RouteBack(trace) == Reverse([i \in 1..Len(trace) |-> trace[i][1]])

(* C21 (Spec). Flood response construction: the FloodResponse the drone    *)
(* builds on the respond branch carries the request's flood id and the     *)
(* path trace extended by (own id, Drone); its hop list is that trace's    *)
(* node ids reversed, its hop index 1; and it, and nothing else, is put on *)
(* the channel of the node at position 1 of that hop list.                 *)
C21_FloodResponseConstruction ==
    \A d \in drones :
        LET l == last[d]
            route == RouteBack(UpdatedTrace(d, l))
        IN TookRespond(l) =>
             /\ l.out.built.pack_type =
                   FloodResponse(l.pkt.pack_type.flood_id, UpdatedTrace(d, l))
             /\ l.out.built.routing_header = SourceRoutingHeader(1, route)
             /\ ~l.out.panic
             /\ Len(route) >= 2
             /\ l.out.sent = {<<At(route, 1), l.out.built>>}


(* The one case declared a silent drop: an Ack, Nack or FloodResponse      *)
(* addressed to the drone whose next hop is not in the Link Table.         *)
SilentDrop(d, l) ==
    /\ AddressedTo(d, l)
    /\ ~IsFragment(l)
    /\ ~Terminal(l)
    /\ NextHop(l) \notin l.links

(* C22 (Spec). Nothing is silently swallowed: handling a routed packet     *)
(* other than that case puts at least one packet on a channel or sends an  *)
(* event, and a Nack or flood response the drone builds is put on a        *)
(* channel, whatever the Link Table holds.                                 *)
C22_NothingSwallowed ==
    \A d \in drones :
        LET l == last[d] IN
        /\ (Routed(l) /\ ~SilentDrop(d, l)) =>
              (l.out.sent # {} \/ l.out.events # {})
        /\ (BuiltNack(l) \/ TookRespond(l)) =>
              \E s \in l.out.sent : s[2] = l.out.built

(* The drone's thread is in run's loop.                                    *)
Running(d) ==
    /\ pc[d] \in {"select", "blocked", "woken-packet", "woken-command"}
    /\ ~should_exit[d]

TookCommand(l, tag) == l.op = "select-command" /\ l.cmd.tag = tag

(* C23 (Spec). RemoveSender(n) leaves the Link Table without n and         *)
(* otherwise as it was (unchanged when n was absent), leaves the drop rate *)
(* and the Seen-Flood-Id Set unchanged, and the drone stays in run's loop. *)
C23_RemoveSender ==
    \A d \in drones :
        LET l == last[d] IN
        TookCommand(l, "RemoveSender") =>
            /\ packet_send[d] = l.links \ {l.cmd.id}
            /\ pdr[d] = l.rate
            /\ seen_flood_ids[d] = l.seen
            /\ Running(d)

C23_Witness ==
    /\ TookCommand(last[Drone11], "RemoveSender")
    /\ last[Drone11].cmd.id \notin last[Drone11].links
    /\ packet_send[Drone11] = {ClientId, Drone12}
    /\ Running(Drone11)

(* C24 (Spec). The Seen-Flood-Id Set after a step of the drone is the set  *)
(* before it, with the request's flood id added when the step took the     *)
(* broadcast branch and unchanged for every other step (respond branch,    *)
(* routed packet, command, end of the drain); it starts empty.             *)
C24_SeenSetOnlyGrows ==
    \A d \in drones :
        LET l == last[d] IN
        seen_flood_ids[d] =
            IF l.op = "none" THEN {}
            ELSE IF TookBroadcast(l) THEN l.seen \cup {l.pkt.pack_type.flood_id}
            ELSE l.seen

C24_Witness ==
    /\ TookRespond(last[Drone11])
    /\ last[Drone11].pkt.pack_type.flood_id \notin last[Drone11].seen
    /\ seen_flood_ids[Drone11] = last[Drone11].seen
    /\ seen_flood_ids[Drone11] # {}

(* C25 (Spec). A Nack the drone builds has the session id of the packet    *)
(* that caused it and that packet's fragment index when it is a fragment,  *)
(* 0 when it is an Ack, Nack or FloodResponse.                             *)
C25_NackFields ==
    \A d \in drones :
        LET l == last[d] IN
        BuiltNack(l) =>
            /\ l.out.built.session_id = l.pkt.session_id
            /\ l.out.built.pack_type.fragment_index =
                  IF IsFragment(l) THEN l.pkt.pack_type.fragment_index ELSE 0

C25_Witness ==
    /\ BuiltNack(last[Drone11])
    /\ last[Drone11].pkt.pack_type.tag = "Ack"
    /\ last[Drone11].pkt.pack_type.fragment_index = 1
    /\ last[Drone11].pkt.session_id = 2
    /\ last[Drone11].out.built.session_id = 2
    /\ last[Drone11].out.built.pack_type.fragment_index = 0

(* C26 (Spec). Frame: a step that handles a packet, in the loop or in the  *)
(* crash drain, leaves the Link Table and the drop rate as they were; a    *)
(* command other than AddSender/RemoveSender leaves the Link Table and a   *)
(* command other than SetPacketDropRate leaves the drop rate.              *)
C26_PacketsLeaveLinksAndRate ==
    \A d \in drones :
        LET l == last[d] IN
        /\ l.op \in PacketOps \cup {"drain-exit"} =>
              packet_send[d] = l.links /\ pdr[d] = l.rate
        /\ (l.op = "select-command" /\ l.cmd.tag \notin {"AddSender", "RemoveSender"}) =>
              packet_send[d] = l.links
        /\ (l.op = "select-command" /\ l.cmd.tag # "SetPacketDropRate") =>
              pdr[d] = l.rate

C26_Witness ==
    /\ last[Drone11].op = "drain-packet"
    /\ last[Drone11].out.sent # {}
    /\ last[Drone11].links = {ClientId, Drone12}
    /\ packet_send[Drone11] = last[Drone11].links
    /\ last[Drone11].rate = PdrUnit \div 2
    /\ pdr[Drone11] = last[Drone11].rate

(* A header a drone may inspect: 0 <= hop_index < len(hops).               *)
ValidHeader(rh) == 0 <= rh.hop_index /\ rh.hop_index < Len(rh.hops)

(* C27 (Spec). Handling a routed packet with a valid header, or a flood    *)
(* request, does not fail, and every routed packet emitted for it has a    *)
(* valid header.                                                           *)
C27_NoFailureValidHeaders ==
    \A d \in drones :
        LET l == last[d] IN
        (l.op \in PacketOps /\ (HandledFlood(l) \/ ValidHeader(l.pkt.routing_header))) =>
            /\ ~l.out.panic
            /\ \A s \in l.out.sent :
                  s[2].pack_type.tag # "FloodRequest" => ValidHeader(s[2].routing_header)

(* C29 (Spec). A routed packet that passed the reachability check and was  *)
(* not dropped: its next hop was in the Link Table when it was handled,    *)
(* the Link Table is the same after the step, forward_packet found the     *)
(* channel, and the packet is on the channel of hops[hop_index].           *)
C29_ForwardFindsChannel ==
    \A d \in drones :
        LET l == last[d] IN
        (Routed(l) /\ l.out.branch = "Forward") =>
            /\ AddressedTo(d, l) /\ ~Terminal(l)
            /\ NextHop(l) \in l.links
            /\ packet_send[d] = l.links
            /\ ~l.out.nochannel
            /\ \E s \in l.out.sent : s[1] = NextHop(l) /\ s[2] = Advanced(l)

C29_Witness ==
    /\ Routed(last[Drone11])
    /\ last[Drone11].out.branch = "Forward"
    /\ last[Drone11].via = "select"
    /\ last[Drone11].cmdPending
    /\ NextHop(last[Drone11]) = ServerId
    /\ \E s \in last[Drone11].out.sent : s[1] = ServerId


-----------------------------------------------------------------------------
(* No FloodRequest is in any channel.                                      *)
FloodQuiet ==
    \A n \in DOMAIN packet_recv :
        \A i \in 1..Len(packet_recv[n]) :
            packet_recv[n][i].pack_type.tag # "FloodRequest"

BroadcastAtMostOnce ==
    \A d \in drones : \A f \in 1..MaxFloodId : hist.broadcasts[d][f] <= 1

(* C28 (FloodSpec). In the fixed network every drone takes the broadcast   *)
(* branch at most once per flood id, and the flood quiesces: from some     *)
(* point on no FloodRequest is in any channel, whatever the interleaving   *)
(* of the drones' threads.                                                 *)
C28_FloodQuiescence == []BroadcastAtMostOnce /\ <>[]FloodQuiet

C28_Witness ==
    /\ \A d \in drones : hist.broadcasts[d][1] = 1
    /\ \E d \in drones : TookRespond(last[d]) /\ last[d].arrivals = "ok"
    /\ FloodQuiet

=============================================================================
